---- MODULE Spec2Model ----
(***************************************************************************)
(* A model of the nepc helper utilities:                                   *)
(*   - nepc/methods/thomson.py : reducedEnergy, funcEJ, funcGuess_1,       *)
(*     funcGuess_2 (list comprehensions over a caller's sequence);         *)
(*   - src/lib/plotter.py : lxcat_plot_zats, lxcat_plot_zats_top6,         *)
(*     n_plot_zats, plot_nepc_model (calls on a drawing surface and on     *)
(*     pyplot's process-wide state).                                       *)
(*                                                                         *)
(* Numbers are exact: a number is [n, d, p] and stands for (n/d) * pi^p,   *)
(* in lowest terms with d > 0.  d = 0 holds the non-finite results of a    *)
(* numpy division: n = 1 is inf, n = -1 is -inf, n = 0 is nan.             *)
(***************************************************************************)
EXTENDS Integers, Sequences, FiniteSets, TLC

VARIABLES
    seq,        \* thomson: the caller's input sequence object [kind, items]
    ret,        \* thomson: the last call [fn, args, status, exc, value]
    axes,       \* plotter: the drawing surfaces, by identity 1..Len(axes)
    gca,        \* plotter: pyplot's current axes (process-wide)
    rcFigsize,  \* plotter: plt.rcParams["figure.figsize"] (process-wide)
    files,      \* plotter: path -> [fig, writes]: the figure last saved
                \*          there and how often the file was written
    call        \* plotter: the last call, its arguments and what it returned

vars == <<seq, ret, axes, gca, rcFigsize, files, call>>

thomsonVars == <<seq, ret>>
plotterVars == <<axes, gca, rcFigsize, files, call>>

----------------------------------------------------------------------------
(* Bounds of the model                                                     *)

MaxSeqLen == 3      \* thomson: longest input sequence
MaxCalls == 2       \* plotter: calls in one behaviour of Spec
MaxProcs == 2       \* plotter: longest list of records in Spec
MaxModelLen == 2    \* plot_nepc_model: longest list of varied records
MaxLongLen == 12    \* plot_nepc_model: longest list of plain records

----------------------------------------------------------------------------
(* Exact arithmetic                                                        *)

Abs(i) == IF i < 0 THEN -i ELSE i

Sign(i) == IF i < 0 THEN -1 ELSE IF i = 0 THEN 0 ELSE 1

RECURSIVE GCD(_, _)
GCD(a, b) == IF b = 0 THEN a ELSE GCD(b, a % b)

\* (n/d) * pi^p in lowest terms; any n/0 is inf, -inf or nan
Norm(n, d, p) ==
    IF d = 0 THEN [n |-> Sign(n), d |-> 0, p |-> 0]
    ELSE IF n = 0 THEN [n |-> 0, d |-> 1, p |-> 0]
    ELSE LET g == GCD(Abs(n), Abs(d))
         IN  [n |-> Sign(d) * (n \div g), d |-> Abs(d) \div g, p |-> p]

Whole(i) == Norm(i, 1, 0)
Rat(n, d) == Norm(n, d, 0)
Pi == Norm(1, 1, 1)

IsFinite(x) == x.d # 0
IsZero(x) == x.d # 0 /\ x.n = 0

\* x * y, x + y, x - y on finite numbers (a sum has one power of pi)
Mul(x, y) == Norm(x.n * y.n, x.d * y.d, x.p + y.p)
Add(x, y) == Norm(x.n * y.d + y.n * x.d, x.d * y.d,
                  IF IsZero(x) THEN y.p ELSE x.p)
Sub(x, y) == Add(x, Mul(Whole(-1), y))
\* x <= y on finite numbers free of pi
Le(x, y) == x.n * y.d <= y.n * x.d

\* the value of x / y; with y = 0 it is numpy's: inf, -inf or nan
Quot(x, y) ==
    IF IsZero(y) THEN Norm(x.n, 0, 0)
    ELSE Norm(x.n * y.d, x.d * y.n, x.p - y.p)

----------------------------------------------------------------------------
(* Python evaluation of one expression: a value or a raised exception      *)

Value(v) == [exc |-> "", val |-> v]
Raise(e) == [exc |-> e, val |-> Whole(0)]

\* x / y.  A built-in float or int divided by zero raises ZeroDivisionError;
\* with a numpy scalar operand the division returns inf, -inf or nan.
TrueDiv(x, y, kind) ==
    IF IsZero(y) /\ kind = "py" THEN Raise("ZeroDivisionError")
    ELSE Value(Quot(x, y))

\* The names bound in thomson.py's module namespace: the file holds four
\* function definitions and no import or assignment.
ModuleGlobals == {"reducedEnergy", "funcEJ", "funcGuess_1", "funcGuess_2"}

\* ReducedEnergyElem with the slip of exchanging the operands
ReducedEnergyElemSwapped(x, ionization_potential, kind) ==
    TrueDiv(ionization_potential, x, kind)

\* thomson.py:3, the element expression  x / ionization_potential
ReducedEnergyElem(x, ionization_potential, kind) ==
    TrueDiv(x, ionization_potential, kind)

\* thomson.py:7, the element expression.  Evaluation reads the global names
\* elec_charge, np and ke; the first one unbound raises NameError.  Were they
\* bound, the value would be x * J^2 / (n_valence * pi) times a fixed factor
\* of the constants, left out here.
FuncEJElem(x, ionization_potential, n_valence, kind) ==
    IF ~ ({"elec_charge", "np", "ke"} \subseteq ModuleGlobals)
    THEN Raise("NameError")
    ELSE TrueDiv(Mul(x, Mul(ionization_potential, ionization_potential)),
                 Mul(n_valence, Pi), kind)

\* thomson.py:11, (a * (y + b)) / (np.pi * y * (y + d))
FuncGuess1Elem(y, a, b, d, kind) ==
    IF "np" \notin ModuleGlobals THEN Raise("NameError")
    ELSE TrueDiv(Mul(a, Add(y, b)), Mul(Pi, Mul(y, Add(y, d))), kind)

\* thomson.py:14, (a * (y + b)) / (np.pi * (y + e) * (y + d))
FuncGuess2Elem(y, a, b, d, e, kind) ==
    IF "np" \notin ModuleGlobals THEN Raise("NameError")
    ELSE TrueDiv(Mul(a, Add(y, b)), Mul(Pi, Mul(Add(y, e), Add(y, d))), kind)

\* A list comprehension [f(x) for x in items]: the elements are evaluated in
\* order into a new list; the first exception ends the call.
RECURSIVE Comprehend(_, _)
Comprehend(outs, acc) ==
    IF outs = <<>> THEN [status |-> "returned", exc |-> "", value |-> acc]
    ELSE IF Head(outs).exc # ""
         THEN [status |-> "raised", exc |-> Head(outs).exc, value |-> <<>>]
         ELSE Comprehend(Tail(outs), Append(acc, Head(outs).val))

reducedEnergy(energy, ionization_potential) ==
    Comprehend([i \in 1..Len(energy.items) |->
                  ReducedEnergyElem(energy.items[i], ionization_potential,
                                    energy.kind)], <<>>)

funcEJ(cross_section, ionization_potential, n_valence) ==
    Comprehend([i \in 1..Len(cross_section.items) |->
                  FuncEJElem(cross_section.items[i], ionization_potential,
                             n_valence, cross_section.kind)], <<>>)

funcGuess_1(x, a, b, d) ==
    Comprehend([i \in 1..Len(x.items) |->
                  FuncGuess1Elem(x.items[i], a, b, d, x.kind)], <<>>)

funcGuess_2(x, a, b, d, e) ==
    Comprehend([i \in 1..Len(x.items) |->
                  FuncGuess2Elem(x.items[i], a, b, d, e, x.kind)], <<>>)

----------------------------------------------------------------------------
(* The physics module as a state machine: the caller holds a sequence and  *)
(* calls the four functions on it.                                         *)

Kinds == {"py", "np"}    \* built-in numbers in a list / numpy scalars
SeqValues == {Whole(-1), Whole(0), Whole(10), Whole(20)}
Potentials == {Whole(0), Whole(4), Whole(5)}
Valences == {Whole(1), Whole(2)}
Coefficients == {Whole(0), Whole(1)}

SeqsUpTo(S, n) == UNION {[1..k -> S] : k \in 0..n}

NoCall == [fn |-> "none", args |-> <<>>, status |-> "none", exc |-> "",
           value |-> <<>>]

Returned(fn, args, out) ==
    [fn |-> fn, args |-> args, status |-> out.status, exc |-> out.exc,
     value |-> out.value]

CallReducedEnergy(j) ==
    /\ ret' = Returned("reducedEnergy", <<j>>, reducedEnergy(seq, j))
    /\ UNCHANGED <<seq, plotterVars>>

CallFuncEJ(j, n) ==
    /\ ret' = Returned("funcEJ", <<j, n>>, funcEJ(seq, j, n))
    /\ UNCHANGED <<seq, plotterVars>>

CallFuncGuess1(a, b, d) ==
    /\ ret' = Returned("funcGuess_1", <<a, b, d>>, funcGuess_1(seq, a, b, d))
    /\ UNCHANGED <<seq, plotterVars>>

CallFuncGuess2(a, b, d, e) ==
    /\ ret' = Returned("funcGuess_2", <<a, b, d, e>>,
                       funcGuess_2(seq, a, b, d, e))
    /\ UNCHANGED <<seq, plotterVars>>

----------------------------------------------------------------------------
(* The plotting module.  A drawing surface (matplotlib Axes) is a record;  *)
(* surfaces are known by identity, their index in axes.  pyplot's state    *)
(* is process-wide: the current axes, rcParams and the file system.       *)
(* Cross sections in m^2 are held in units of 1e-22 m^2, so the literal    *)
(* 1E-20 is 100.  Lengths in inches are held in tenths of an inch.         *)

None == {}
Some(x) == {x}
The(opt) == CHOOSE x \in opt : TRUE

NoLabel == [text |-> "", units |-> Whole(0)]
NoLegend == [fontsize |-> 0, ncol |-> 0, anchored |-> FALSE]

\* an Axes as plt.subplots() hands it out, in a figure of the given size
FreshAxes(fig, figsize) ==
    [fig |-> fig, figsize |-> figsize,
     xscale |-> "linear", yscale |-> "linear",
     xlabel |-> "", ylabel |-> NoLabel,
     xlim |-> "default", ylim |-> "default", ticks |-> "default",
     lines |-> <<>>, bands |-> <<>>, legend |-> NoLegend]

\* The interpreter's plotting state threaded through a call
Plt(a, g, rc, f) == [axes |-> a, gca |-> g, rcFigsize |-> rc, files |-> f]

\* plt.yscale / plt.xscale / plt.ylabel / plt.xlabel act on the current axes
PltYscale(P, v) == [P EXCEPT !.axes[P.gca].yscale = v]
PltXscale(P, v) == [P EXCEPT !.axes[P.gca].xscale = v]
PltYlabel(P, v) == [P EXCEPT !.axes[P.gca].ylabel = v]
PltXlabel(P, v) == [P EXCEPT !.axes[P.gca].xlabel = v]

\* plt.savefig(filename) writes the current figure, the one of the current axes
PltSavefig(P, filename) ==
    [P EXCEPT !.files[filename] =
        [fig |-> P.axes[P.gca].fig, writes |-> @.writes + 1]]

\* ax.set_xlim(**d), ax.set_ylim(**d), ax.tick_params(direction='in', ...)
SetLims(P, ax, xlim_param_dict, ylim_param_dict) ==
    [P EXCEPT !.axes[ax].xlim = xlim_param_dict,
              !.axes[ax].ylim = ylim_param_dict]
TickParams(P, ax) == [P EXCEPT !.axes[ax].ticks = "in"]

\* ax.legend(fontsize=, ncol=, ..., frameon=False)
AxLegend(P, ax, fontsize, ncol, anchored) ==
    [P EXCEPT !.axes[ax].legend =
        [fontsize |-> fontsize, ncol |-> ncol, anchored |-> anchored]]

\* The colour a format string names ('r-', 'b--')
FmtColor(fmt) == IF fmt = "r-" THEN <<"r", 0>> ELSE <<"b", 0>>

\* The colour ax.plot takes from the property cycle when none is given: the
\* default cycle has ten colours, C0 .. C9, used in turn.
CycleColor(surface) ==
    <<"C", Cardinality({k \in 1..Len(surface.lines) :
                          surface.lines[k].color[1] = "C"}) % 10>>

\* ax.plot(x, y, fmt?, **plot_param_dict, label=label): one more line on ax.
\* fmt = "" is a call that gives no format string.
AxPlot(P, ax, x, y, fmt, plot_param_dict, label) ==
    LET color == IF fmt = "" THEN CycleColor(P.axes[ax]) ELSE FmtColor(fmt)
        line == [x |-> x, y |-> y, fmt |-> fmt, color |-> color,
                 linewidth |-> plot_param_dict.linewidth, label |-> label]
    IN  [P EXCEPT !.axes[ax].lines = Append(@, line)]

\* p[0].get_color() of the line ax.plot has just returned
LastLineColor(P, ax) == P.axes[ax].lines[Len(P.axes[ax].lines)].color

\* ax.fill_between(x, y1, y2, color=, alpha=0.4)
AxFillBetween(P, ax, x, y1, y2, color) ==
    [P EXCEPT !.axes[ax].bands =
        Append(@, [x |-> x, lower |-> y1, upper |-> y2, color |-> color,
                   alpha |-> Rat(2, 5)])]

\* elementwise numpy arithmetic on an array
Scale(arr, k) == [i \in 1..Len(arr) |-> Mul(arr[i], k)]
Over(arr, k) == [i \in 1..Len(arr) |-> Quot(arr[i], k)]
Column(data, c) == [i \in 1..Len(data) |-> data[i][c]]

\* the literal 1E-20
E20 == Whole(100)

XLABEL == "Electron Energy (eV)"
YLABEL16 == [text |-> "Cross Section ($10^{-16}$ cm$^2$)", units |-> Whole(0)]

\* plotter.py:50-63, 183-196: the scales, labels, limits and ticks that
\* lxcat_plot_zats and n_plot_zats set before drawing
Preamble(P, ax, xlim_param_dict, ylim_param_dict, ylog, xlog) ==
    LET P1 == IF ylog THEN PltYscale(P, "log") ELSE P
        P2 == IF xlog THEN PltXscale(P1, "log") ELSE P1
        P3 == PltXlabel(PltYlabel(P2, YLABEL16), XLABEL)
    IN  TickParams(SetLims(P3, ax, xlim_param_dict, ylim_param_dict), ax)

\* What a call hands back: the plotting state it leaves, the object it
\* returns, the lines it added (surface, position) and, for plot_nepc_model,
\* the positions in model of the records it drew, in drawing order.
Outcome(P, returned, artists, drawn) ==
    [P |-> P, ret |-> returned, artists |-> artists, drawn |-> drawn]

AnAxes(ax) == [kind |-> "Axes", ids |-> <<ax>>]
AnArray(ids) == [kind |-> "ndarray", ids |-> ids]

NewArtists(P, ax, n) ==
    [k \in 1..n |-> [surface |-> ax, index |-> Len(P.axes[ax].lines) + k]]

\* plotter.py:65-70, the loop of lxcat_plot_zats from i (1-based) on
RECURSIVE LxcatLoop(_, _, _, _, _, _)
LxcatLoop(P, ax, processes, plot_line_style_list, plot_param_dict, i) ==
    IF i > Len(processes) THEN P
    ELSE LET process_np == processes[i].data
             P1 == AxPlot(P, ax, Column(process_np, 1),
                          Over(Column(process_np, 2), E20),
                          plot_line_style_list[i], plot_param_dict,
                          <<processes[i].process>>)
         IN  LxcatLoop(P1, ax, processes, plot_line_style_list,
                       plot_param_dict, i + 1)

\* plotter.py:10-80
lxcat_plot_zats(P, ax, processes, plot_line_style_list, plot_param_dict, xlim_param_dict, ylim_param_dict, ylog, xlog, show_legend, filename) ==
    LET P1 == Preamble(P, ax, xlim_param_dict, ylim_param_dict, ylog, xlog)
        P2 == LxcatLoop(P1, ax, processes, plot_line_style_list,
                        plot_param_dict, 1)
        P3 == IF show_legend THEN AxLegend(P2, ax, 8, 1, FALSE) ELSE P2
        P4 == PltSavefig(P3, filename)
    IN  Outcome(P4, AnAxes(ax), NewArtists(P, ax, Len(processes)), <<>>)

\* plotter.py:119-120, fig, ax = plt.subplots(n, ..., figsize=(5, 10)): a
\* new figure with n new axes, the last of them the current axes
RECURSIVE MaxFig(_)
MaxFig(a) ==
    IF a = <<>> THEN 0
    ELSE LET m == MaxFig(Tail(a))
         IN  IF Head(a).fig > m THEN Head(a).fig ELSE m

PltSubplots(P, n, figsize) ==
    LET fig == MaxFig(P.axes) + 1
        new == [k \in 1..n |-> FreshAxes(fig, figsize)]
    IN  [P EXCEPT !.axes = @ \o new, !.gca = Len(P.axes) + n]

\* plotter.py:122-136, the loop of lxcat_plot_zats_top6; ax is the array
\* plt.subplots returned, i is the 0-based index of the code
RECURSIVE Top6Loop(_, _, _, _, _, _)
Top6Loop(P, ax, processes, plot_param_dict, show_legend, i) ==
    IF i >= Len(processes) THEN P
    ELSE LET n == Len(processes)
             a == ax[i + 1]
             P1 == IF 2 * i = n
                   THEN [P EXCEPT !.axes[a].ylabel = YLABEL16] ELSE P
             P2 == IF i = n - 1
                   THEN [P1 EXCEPT !.axes[a].xlabel = XLABEL] ELSE P1
             P3 == TickParams(TickParams(P2, a), a)
             process_np == processes[i + 1].data
             P4 == AxPlot(P3, a, Column(process_np, 1),
                          Over(Column(process_np, 2), E20), "r-",
                          plot_param_dict, <<processes[i + 1].process>>)
             P5 == IF show_legend THEN AxLegend(P4, a, 8, 1, FALSE) ELSE P4
         IN  Top6Loop(P5, ax, processes, plot_param_dict, show_legend, i + 1)

\* plotter.py:83-138.  The parameter ax is rebound at line 119 before any
\* use: the surfaces drawn on and returned are the new subplots.
lxcat_plot_zats_top6(P, ax, processes, plot_param_dict, ylog, xlog, show_legend) ==
    LET P1 == IF ylog THEN PltYscale(P, "log") ELSE P
        P2 == IF xlog THEN PltXscale(P1, "log") ELSE P1
        P3 == PltSubplots(P2, Len(processes), <<50, 100>>)
        new == [k \in 1..Len(processes) |-> Len(P.axes) + k]
        P4 == Top6Loop(P3, new, processes, plot_param_dict, show_legend, 0)
    IN  Outcome(P4, AnArray(new),
                [k \in 1..Len(processes) |->
                    [surface |-> new[k], index |-> 1]], <<>>)

\* plotter.py:141-212
n_plot_zats(P, ax, data, process, plot_line_style, plot_param_dict, xlim_param_dict, ylim_param_dict, ylog, xlog, show_legend, filename) ==
    LET P1 == Preamble(P, ax, xlim_param_dict, ylim_param_dict, ylog, xlog)
        P2 == AxPlot(P1, ax, Column(data, 1), Column(data, 2),
                     plot_line_style, plot_param_dict, <<process>>)
        P3 == IF show_legend THEN AxLegend(P2, ax, 8, 1, FALSE) ELSE P2
        P4 == PltSavefig(P3, filename)
    IN  Outcome(P4, AnAxes(ax), NewArtists(P, ax, 1), <<>>)

\* nepc.reaction_latex(record): the reaction's display text
reaction_latex(record) == record.process

\* plotter.py:288-289, " ".join of the items that are not empty
LabelText(record) ==
    SelectSeq(<<record.process, ": ", reaction_latex(record)>>,
              LAMBDA item : item # "")

\* Uncertainty with the slip of taking an absent fraction as 0
UncertaintyDefaultZero(fraction) ==
    IF fraction = None THEN Whole(0) ELSE The(fraction)

\* plotter.py:292-293, 0.5 if the record's fraction is None else its own
Uncertainty(fraction) == IF fraction = None THEN Rat(1, 2) ELSE The(fraction)

\* CapReached with the slip of testing > in place of >=
CapReachedOffByOne(plot_num, max_plots) == plot_num > max_plots

\* plotter.py:281, the test that skips the rest of the records
CapReached(plot_num, max_plots) == plot_num >= max_plots

\* plotter.py:283, the test that selects a record
Matches(record, process) == process = "" \/ record.process = process

\* FillColor with the slip of reading the surface's first line instead of
\* the line just drawn
FillColorFirstLine(record, P, ax) ==
    IF record.upu = None \/ record.lpu = None THEN <<"grey", 0>>
    ELSE P.axes[ax].lines[1].color

\* plotter.py:299-302, the colour of the band of the record just drawn
FillColor(record, P, ax) ==
    IF record.upu = None \/ record.lpu = None THEN <<"grey", 0>>
    ELSE LastLineColor(P, ax)

\* plotter.py:290-295, the edges of the band
SigmaUpper(record) ==
    Scale(record.sigma, Add(Whole(1), Uncertainty(record.upu)))
SigmaLower(record) ==
    Scale(record.sigma, Sub(Whole(1), Uncertainty(record.lpu)))

\* plotter.py:296, the y values of the curve
SigmaDrawn(record, units_sigma) ==
    Over(Scale(record.sigma, record.units_sigma), units_sigma)

\* plotter.py:284-304, one record drawn: its curve, then its band
DrawRecord(P, ax, record, units_sigma, plot_param_dict) ==
    LET P1 == AxPlot(P, ax, record.e, SigmaDrawn(record, units_sigma), "",
                     plot_param_dict, LabelText(record))
    IN  AxFillBetween(P1, ax, record.e, SigmaLower(record),
                      SigmaUpper(record), FillColor(record, P1, ax))

\* plotter.py:279-306, the loop of plot_nepc_model from record i (1-based)
\* on; S holds the plotting state, plot_num and the records drawn so far.
\* The i += 1 of line 306 is overwritten by the for statement.
RECURSIVE NepcLoop(_, _, _, _, _, _, _, _)
NepcLoop(S, ax, model, units_sigma, process, plot_param_dict, max_plots, i) ==
    IF i > Len(model) THEN S
    ELSE IF CapReached(S.plot_num, max_plots)
    THEN NepcLoop(S, ax, model, units_sigma, process, plot_param_dict,
                  max_plots, i + 1)
    ELSE IF Matches(model[i], process)
    THEN NepcLoop([P |-> DrawRecord(S.P, ax, model[i], units_sigma,
                                    plot_param_dict),
                   plot_num |-> S.plot_num + 1,
                   drawn |-> Append(S.drawn, i)],
                  ax, model, units_sigma, process, plot_param_dict,
                  max_plots, i + 1)
    ELSE NepcLoop(S, ax, model, units_sigma, process, plot_param_dict,
                  max_plots, i + 1)

\* plotter.py:215-317.  The filename parameter is never read: line 315,
\* plt.savefig(filename), is a comment.
plot_nepc_model(P, ax, model, units_sigma, process, plot_param_dict, xlim_param_dict, ylim_param_dict, ylog, xlog, show_legend, filename, max_plots, width, height) ==
    LET P1 == IF ylog THEN PltYscale(P, "log") ELSE P
        P2 == IF xlog THEN PltXscale(P1, "log") ELSE P1
        P3 == [P2 EXCEPT !.rcFigsize = <<width, height>>]
        P4 == PltXlabel(PltYlabel(P3, [text |-> "Cross Section (",
                                       units |-> units_sigma]), XLABEL)
        P5 == TickParams(SetLims(P4, ax, xlim_param_dict, ylim_param_dict),
                         ax)
        S == NepcLoop([P |-> P5, plot_num |-> 0, drawn |-> <<>>], ax, model,
                      units_sigma, process, plot_param_dict, max_plots, 1)
        P6 == IF show_legend THEN AxLegend(S.P, ax, 12, 2, TRUE) ELSE S.P
    IN  Outcome(P6, AnAxes(ax), NewArtists(P, ax, Len(S.drawn)), S.drawn)

----------------------------------------------------------------------------
(* The plotting module as a state machine: the caller holds the surfaces   *)
(* and calls the four functions.                                           *)

Processes == {"ionization", "excitation"}
Paths == {"default.png", "out.png"}
Filenames == {None, Some("out.png")}     \* None: the caller gives no filename
Figsizes == {<<100, 100>>, <<40, 30>>}   \* (width, height); default (10, 10)
Units == {Whole(100), Whole(10000)}      \* 1e-20 m^2, 1e-18 m^2
Fractions == {None, Some(Rat(1, 4))}
Filters == {"", "ionization"}

\* plotter.py:222, the default of max_plots
MaxPlotsDefault == 10
MaxPlotsChoices == {0, 1, MaxPlotsDefault}

\* the default of filename (plotter.py:15, 146, 221)
FilenameOr(filename) == IF filename = None THEN "default.png" ELSE The(filename)

LineWidth1 == [linewidth |-> Whole(1)]      \* {'linewidth': 1}
LineWidth08 == [linewidth |-> Rat(4, 5)]    \* {'linewidth': 0.8}
Auto == "auto"                              \* {'auto': True}

\* a record of the BOLOS parser: rows of (energy, cross section in m^2)
LxcatRecord(process) ==
    [process |-> process,
     data |-> <<<<Whole(1), Whole(250)>>, <<Whole(10), Whole(100)>>>>]
LxcatRecords == {LxcatRecord(p) : p \in Processes}

\* raw data of n_plot_zats: rows of (energy, cross section)
ZatsData == <<<<Whole(1), Whole(3)>>, <<Whole(10), Whole(2)>>>>

\* plot_line_style_list, one style for each record
RECURSIVE StyleList(_)
StyleList(n) ==
    IF n = 0 THEN <<>>
    ELSE Append(StyleList(n - 1), IF n % 2 = 1 THEN "r-" ELSE "b--")

\* a record of a NEPC model (nepc.model)
NepcRecord(process, upu, lpu, units_sigma) ==
    [process |-> process, e |-> <<Whole(1), Whole(10)>>,
     sigma |-> <<Whole(0), Whole(2)>>, units_sigma |-> units_sigma,
     upu |-> upu, lpu |-> lpu]
PlainRecords == {NepcRecord(p, None, None, Whole(100)) : p \in Processes}
VariedRecords ==
    {NepcRecord(p, u, l, ru) :
        p \in Processes, u \in Fractions, l \in Fractions, ru \in Units}

NoPlotCall ==
    [fn |-> "none", seqno |-> 0, ax |-> 0, filename |-> None,
     model |-> <<>>, units_sigma |-> Whole(0), process |-> "",
     max_plots |-> 0, ret |-> AnArray(<<>>), artists |-> <<>>,
     drawn |-> <<>>]

PlotterInit ==
    /\ axes = <<FreshAxes(1, <<64, 48>>)>>   \* fig, ax = plt.subplots()
    /\ gca = 1
    /\ rcFigsize = <<64, 48>>                \* matplotlib's (6.4, 4.8)
    /\ files = [p \in Paths |-> [fig |-> 0, writes |-> 0]]
    /\ call = NoPlotCall

Now == Plt(axes, gca, rcFigsize, files)

\* the state a call leaves, and the record of the call
Leave(out, c) ==
    \E o \in {out} :
        /\ axes' = o.P.axes
        /\ gca' = o.P.gca
        /\ rcFigsize' = o.P.rcFigsize
        /\ files' = o.P.files
        /\ call' = [c EXCEPT !.seqno = call.seqno + 1, !.ret = o.ret,
                             !.artists = o.artists, !.drawn = o.drawn]
        /\ UNCHANGED thomsonVars

CallLxcatPlotZats ==
    /\ call.seqno < MaxCalls
    /\ \E ax \in DOMAIN axes, processes \in SeqsUpTo(LxcatRecords, MaxProcs),
          ylog \in BOOLEAN, xlog \in BOOLEAN, show_legend \in BOOLEAN,
          filename \in Filenames :
          Leave(lxcat_plot_zats(Now, ax, processes,
                                StyleList(Len(processes)), LineWidth1, Auto,
                                Auto, ylog, xlog, show_legend,
                                FilenameOr(filename)),
                [NoPlotCall EXCEPT !.fn = "lxcat_plot_zats", !.ax = ax,
                                   !.filename = filename])

\* plt.subplots(n) hands back an array of axes for n >= 2 only
CallLxcatPlotZatsTop6 ==
    /\ call.seqno < MaxCalls
    /\ \E ax \in DOMAIN axes, processes \in SeqsUpTo(LxcatRecords, MaxProcs),
          ylog \in BOOLEAN, xlog \in BOOLEAN, show_legend \in BOOLEAN :
          /\ Len(processes) >= 2
          /\ Leave(lxcat_plot_zats_top6(Now, ax, processes, LineWidth1, ylog,
                                        xlog, show_legend),
                   [NoPlotCall EXCEPT !.fn = "lxcat_plot_zats_top6",
                                      !.ax = ax])

CallNPlotZats ==
    /\ call.seqno < MaxCalls
    /\ \E ax \in DOMAIN axes, process \in Processes,
          ylog \in BOOLEAN, xlog \in BOOLEAN, show_legend \in BOOLEAN,
          filename \in Filenames :
          Leave(n_plot_zats(Now, ax, ZatsData, process, "r-", LineWidth08,
                            Auto, Auto, ylog, xlog, show_legend,
                            FilenameOr(filename)),
                [NoPlotCall EXCEPT !.fn = "n_plot_zats", !.ax = ax,
                                   !.filename = filename])

PlotNepcModel(ax, model, units_sigma, process, ylog, xlog, show_legend, filename, max_plots, figsize) ==
    Leave(plot_nepc_model(Now, ax, model, units_sigma, process, LineWidth1,
                          Auto, Auto, ylog, xlog, show_legend,
                          FilenameOr(filename), max_plots, figsize[1],
                          figsize[2]),
          [NoPlotCall EXCEPT !.fn = "plot_nepc_model", !.ax = ax,
                             !.filename = filename, !.model = model,
                             !.units_sigma = units_sigma,
                             !.process = process, !.max_plots = max_plots])

CallPlotNepcModel ==
    /\ call.seqno < MaxCalls
    /\ \E ax \in DOMAIN axes, model \in SeqsUpTo(PlainRecords, MaxProcs),
          ylog \in BOOLEAN, xlog \in BOOLEAN, show_legend \in BOOLEAN,
          filename \in Filenames, figsize \in Figsizes :
          PlotNepcModel(ax, model, Whole(100), "", ylog, xlog, show_legend,
                        filename, MaxPlotsDefault, figsize)

ThomsonIdle ==
    /\ seq = [kind |-> "py", items |-> <<>>]
    /\ ret = NoCall

Init == ThomsonIdle /\ PlotterInit

Next ==
    \/ CallLxcatPlotZats
    \/ CallLxcatPlotZatsTop6
    \/ CallNPlotZats
    \/ CallPlotNepcModel

Spec == Init /\ [][Next]_vars

----------------------------------------------------------------------------
(* plot_nepc_model on its own: one call on the fresh surface, with the     *)
(* other options at their defaults.                                        *)

\* lists of records that differ in every field
ModelCallVaried ==
    /\ call.seqno = 0
    /\ \E model \in SeqsUpTo(VariedRecords, MaxModelLen),
          units_sigma \in Units, process \in Filters,
          max_plots \in MaxPlotsChoices :
          PlotNepcModel(1, model, units_sigma, process, FALSE, FALSE, TRUE,
                        None, max_plots, <<100, 100>>)

\* long lists of records that differ in their process only, with the
\* default max_plots
ModelCallLong ==
    /\ call.seqno = 0
    /\ \E model \in SeqsUpTo(PlainRecords, MaxLongLen), process \in Filters :
          PlotNepcModel(1, model, Whole(100), process, FALSE, FALSE, TRUE,
                        None, MaxPlotsDefault, <<100, 100>>)

ModelNext == ModelCallVaried \/ ModelCallLong

SpecModel == Init /\ [][ModelNext]_vars

----------------------------------------------------------------------------
(* The physics module on its own: Init draws the caller's sequence.        *)

ThomsonInit ==
    /\ seq \in [kind : Kinds, items : SeqsUpTo(SeqValues, MaxSeqLen)]
    /\ ret = NoCall
    /\ PlotterInit

ThomsonNext ==
    \/ \E j \in Potentials : CallReducedEnergy(j)
    \/ \E j \in Potentials, n \in Valences : CallFuncEJ(j, n)
    \/ \E a \in Coefficients, b \in Coefficients, d \in Coefficients :
          CallFuncGuess1(a, b, d)
    \/ \E a \in Coefficients, b \in Coefficients, d \in Coefficients,
          e \in Coefficients : CallFuncGuess2(a, b, d, e)

SpecThomson == ThomsonInit /\ [][ThomsonNext]_vars

----------------------------------------------------------------------------
(* Properties of plot_nepc_model, checked under SpecModel                  *)

Min(a, b) == IF a < b THEN a ELSE b

\* the positions of the records of model that the process argument selects
RECURSIVE Selected(_, _, _)
Selected(model, process, i) ==
    IF i > Len(model) THEN <<>>
    ELSE (IF process = "" \/ model[i].process = process THEN <<i>> ELSE <<>>)
         \o Selected(model, process, i + 1)

\* the k-th curve the last call added, its band, and the record drawn as it
CurveOf(k) == axes[call.artists[k].surface].lines[call.artists[k].index]
BandOf(k) == axes[call.ax].bands[Len(axes[call.ax].bands)
                                  - Len(call.drawn) + k]
RecordOf(k) == call.model[call.drawn[k]]

ModelCalled == call.fn = "plot_nepc_model"

\* C1: plot_nepc_model draws exactly min(max_plots, m) curves, m the number
\* of records the process argument selects: the first such records in list
\* order, each once, all on ax; no other record is drawn.
C1_DrawsFirstMatchingUpToCap ==
    ModelCalled =>
        LET sel == Selected(call.model, call.process, 1)
            n == Min(call.max_plots, Len(sel))
        IN  /\ call.drawn = SubSeq(sel, 1, n)
            /\ Len(call.artists) = n
            /\ Len(axes[call.ax].lines) = n
            /\ \A k \in 1..n :
                  /\ call.artists[k] = [surface |-> call.ax, index |-> k]
                  /\ CurveOf(k).x = RecordOf(k).e
                  /\ CurveOf(k).label[1] = RecordOf(k).process

\* 12 selected records among the 12 of the model, max_plots = 10, 10 curves
C1_Witness ==
    /\ ModelCalled
    /\ Len(call.model) = 12
    /\ call.process = "ionization"
    /\ \A i \in 1..12 : call.model[i].process = "ionization"
    /\ call.max_plots = 10
    /\ Len(axes[call.ax].lines) = 10

\* C2: for every record drawn, the band's upper edge is sigma * (1 + u) with
\* u = 0.5 when the record's upu is None and its own upu otherwise, and the
\* lower edge is sigma * (1 - l) with l = 0.5 when lpu is None and its own
\* lpu otherwise.
C2_DefaultFractionIsHalf ==
    ModelCalled =>
        \A k \in 1..Len(call.drawn) :
            LET r == RecordOf(k)
                u == IF r.upu = None THEN Rat(1, 2) ELSE The(r.upu)
                l == IF r.lpu = None THEN Rat(1, 2) ELSE The(r.lpu)
            IN  /\ Len(BandOf(k).upper) = Len(r.sigma)
                /\ Len(BandOf(k).lower) = Len(r.sigma)
                /\ \A i \in 1..Len(r.sigma) :
                      /\ BandOf(k).upper[i] =
                            Add(r.sigma[i], Mul(r.sigma[i], u))
                      /\ BandOf(k).lower[i] =
                            Sub(r.sigma[i], Mul(r.sigma[i], l))

\* one drawn record has neither fraction, another has both of its own
C2_Witness ==
    /\ ModelCalled
    /\ \E k \in 1..Len(call.drawn) :
          /\ RecordOf(k).upu = None /\ RecordOf(k).lpu = None
          /\ BandOf(k).upper[2] = Whole(3) /\ BandOf(k).lower[2] = Whole(1)
    /\ \E k \in 1..Len(call.drawn) :
          RecordOf(k).upu # None /\ RecordOf(k).lpu # None

\* C3: for every record drawn, the band has the colour of that record's own
\* curve when both upu and lpu are given, and is grey when either is None.
C3_BandColour ==
    ModelCalled =>
        \A k \in 1..Len(call.drawn) :
            BandOf(k).color =
                IF RecordOf(k).upu # None /\ RecordOf(k).lpu # None
                THEN CurveOf(k).color
                ELSE <<"grey", 0>>

\* the second record drawn has both fractions, the first lacks one
C3_Witness ==
    /\ ModelCalled
    /\ Len(call.drawn) = 2
    /\ RecordOf(1).upu = None
    /\ RecordOf(2).upu # None /\ RecordOf(2).lpu # None
    /\ BandOf(2).color = <<"C", 1>>
    /\ BandOf(1).color = <<"grey", 0>>

InUnit(x) == Le(Whole(0), x) /\ Le(x, Whole(1))

\* C9: for every record drawn whose fractions (own or defaulted) lie in
\* [0, 1] and whose sigma is non-negative, at every energy point the band's
\* lower edge <= the drawn curve <= the band's upper edge, whatever the
\* record's units_sigma and the caller's units_sigma.
C9_BandAroundCurve ==
    ModelCalled =>
        \A k \in 1..Len(call.drawn) :
            LET r == RecordOf(k)
                u == IF r.upu = None THEN Rat(1, 2) ELSE The(r.upu)
                l == IF r.lpu = None THEN Rat(1, 2) ELSE The(r.lpu)
            IN  (/\ InUnit(u) /\ InUnit(l)
                 /\ \A i \in 1..Len(r.sigma) : Le(Whole(0), r.sigma[i]))
                => \A i \in 1..Len(r.sigma) :
                      /\ Le(BandOf(k).lower[i], CurveOf(k).y[i])
                      /\ Le(CurveOf(k).y[i], BandOf(k).upper[i])

----------------------------------------------------------------------------
(* Properties of the four plotting functions, checked under Spec           *)

PlotCalled == call.fn # "none"

\* C4: each of the four plotting functions returns the surface the caller
\* passed as ax, and every curve the call drew is on that surface.
C4_ReturnsPassedSurface ==
    PlotCalled =>
        /\ call.ret = AnAxes(call.ax)
        /\ \A k \in 1..Len(call.artists) : call.artists[k].surface = call.ax

\* C5: a call writes an image file exactly when the caller supplies a
\* filename, and then writes the file of that name: without a filename no
\* file is written, with filename = F the file F is written.
C5_WritesFileIffFilenameGiven ==
    [][call'.seqno # call.seqno =>
          /\ (files' # files) <=> (call'.filename # None)
          /\ call'.filename # None =>
                LET F == The(call'.filename)
                IN  /\ files'[F].writes = files[F].writes + 1
                    /\ \A p \in Paths \ {F} : files'[p] = files[p]]_vars

\* C10: calls are stateless: a call changes only the surface passed to it
\* (and may write an image file); rcParams, pyplot's current axes and every
\* other surface are as before the call, and no surface is created.
C10_OnlyPassedSurfaceChanges ==
    [][call'.seqno # call.seqno =>
          /\ rcFigsize' = rcFigsize
          /\ gca' = gca
          /\ DOMAIN axes' = DOMAIN axes
          /\ \A s \in DOMAIN axes : s # call'.ax => axes'[s] = axes[s]]_vars

----------------------------------------------------------------------------
(* Properties of the physics functions, checked under SpecThomson          *)

Positive(x) == x.d # 0 /\ x.n > 0
Neg(x) == Mul(Whole(-1), x)

\* C6: for every sequence e (the empty one too) and every positive j,
\* reducedEnergy(e, j) returns a sequence as long as e whose i-th element is
\* e[i] / j: the number that times j gives e[i].  reducedEnergy([], j) is
\* [] and reducedEnergy([10, 20], 5) is [2, 4].
C6_ReducedEnergyDivides ==
    (ret.fn = "reducedEnergy" /\ Positive(ret.args[1])) =>
        /\ ret.status = "returned"
        /\ Len(ret.value) = Len(seq.items)
        /\ \A i \in 1..Len(seq.items) :
              /\ IsFinite(ret.value[i])
              /\ Mul(ret.value[i], ret.args[1]) = seq.items[i]
        /\ seq.items = <<>> => ret.value = <<>>
        /\ (seq.items = <<Whole(10), Whole(20)>> /\ ret.args[1] = Whole(5))
              => ret.value = <<Whole(2), Whole(4)>>

\* reducedEnergy([10, 20], 5) has returned [2, 4]
C6_Witness ==
    /\ ret.fn = "reducedEnergy"
    /\ seq.items = <<Whole(10), Whole(20)>>
    /\ ret.args = <<Whole(5)>>
    /\ ret.value = <<Whole(2), Whole(4)>>

\* the indices of the input at which the call's formula has a zero
\* denominator
ZeroDenominatorAt(i) ==
    LET x == seq.items[i]
    IN  CASE ret.fn = "reducedEnergy" -> IsZero(ret.args[1])
          [] ret.fn = "funcEJ" -> IsZero(ret.args[2])
          [] ret.fn = "funcGuess_1" -> IsZero(x) \/ x = Neg(ret.args[3])
          [] ret.fn = "funcGuess_2" ->
                x = Neg(ret.args[4]) \/ x = Neg(ret.args[3])
          [] OTHER -> FALSE

\* C7: a zero denominator is returned as a non-finite element and never
\* raised: reducedEnergy(e, 0), funcGuess_1 at x[i] = 0 or x[i] = -d and
\* funcGuess_2 at x[i] = -e or x[i] = -d complete and return a sequence as
\* long as the input with a non-finite value at that index.
C7_ZeroDenominatorIsNonFinite ==
    ret.fn \in {"reducedEnergy", "funcGuess_1", "funcGuess_2"} =>
        \A i \in 1..Len(seq.items) :
            ZeroDenominatorAt(i) =>
                /\ ret.status = "returned"
                /\ Len(ret.value) = Len(seq.items)
                /\ ~ IsFinite(ret.value[i])

\* C8: each of the four physics functions, called with nonzero
\* denominators, completes without a fault, returns a sequence as long as
\* its input, and leaves its input sequence and the state outside the call
\* unchanged.
C8_PureAndTotal ==
    [][ret' # ret =>
          /\ (\A i \in 1..Len(seq.items) : ~ ZeroDenominatorAt(i)')
                => /\ ret'.status = "returned"
                   /\ Len(ret'.value) = Len(seq.items)
          /\ seq' = seq
          /\ UNCHANGED plotterVars]_vars

====
